---- MODULE Spec2Model ----
(***************************************************************************)
(* A model of xfetch (src/xfetch.c), a host-environment fact collector.    *)
(* The file holds two variants of the program: the basic one (lines 1-225, *)
(* subprocess and /proc probes) and the display-server one (lines 227-445, *)
(* uname/sysinfo syscalls, X11 and Wayland probes).                        *)
(*                                                                         *)
(* C strings are sequences of one-character strings; the NULL pointer is   *)
(* the value NULL below.  A line printed on stdout is a TLA+ string.       *)
(***************************************************************************)
EXTENDS Integers, Sequences, FiniteSets, TLC

VARIABLES
    world,      \* the environment of the run: variables, files, displays, syscalls
    pc,         \* position in main (index into the variant's statement list)
    facts,      \* main's local pointers: fact name -> C string or NULL
    stdout,     \* the lines printed so far
    exitCode,   \* -1 while running, then the process's exit status
    opened,     \* probe -> resource kind -> number of handles the probe opened
    closed,     \* probe -> resource kind -> number of handles the probe released
    attempts,   \* display connections get_session_type attempted, in order
    arg,        \* argument of the pure function under test
    ret,        \* its result
    fn          \* the function that produced ret ("" before the call)

vars == <<world, pc, facts, stdout, exitCode, opened, closed, attempts, arg, ret, fn>>

fnVars == <<arg, ret, fn>>

-----------------------------------------------------------------------------
(* Program constants *)

MAX_LINE_LENGTH == 256

PREFIX_LEN == 12

VERSION_BUF == 128

RESULT_SIZE == 512

SECS_PER_DAY == 86400

SECS_PER_HOUR == 3600

EXIT_FAILURE == 1

-----------------------------------------------------------------------------
(* String literals of the program and of its inputs *)

NULL == <<"<NULL>">>

S_wayland == <<"w", "a", "y", "l", "a", "n", "d">>
S_x11 == <<"x", "1", "1">>
S_tty == <<"t", "t", "y">>
S_X11 == <<"X", "1", "1">>
S_Wayland == <<"W", "a", "y", "l", "a", "n", "d">>
S_Tty == <<"T", "t", "y">>
S_Unknown == <<"U", "n", "k", "n", "o", "w", "n">>
S_UnknownWM == <<"U", "n", "k", "n", "o", "w", "n", " ", "W", "M">>
S_Mutter == <<"M", "u", "t", "t", "e", "r", " ", "(", "W", "a", "y", "l", "a", "n", "d", ")">>
S_KWin == <<"K", "W", "i", "n", " ", "(", "W", "a", "y", "l", "a", "n", "d", ")">>
S_Compositor == <<"W", "a", "y", "l", "a", "n", "d", " ", "C", "o", "m", "p", "o", "s", "i", "t", "o", "r">>
S_GNOME == <<"G", "N", "O", "M", "E">>
S_KDE == <<"K", "D", "E">>
S_ubuntuGNOME == <<"u", "b", "u", "n", "t", "u", ":", "G", "N", "O", "M", "E">>
S_sway == <<"s", "w", "a", "y">>
S_plasma == <<"p", "l", "a", "s", "m", "a">>
S_kde == <<"k", "d", "e">>
S_startkde == <<"s", "t", "a", "r", "t", "k", "d", "e">>
S_gnome == <<"g", "n", "o", "m", "e">>
S_i3 == <<"i", "3">>
S_bash == <<"b", "a", "s", "h">>
S_bashLine == <<"b", "a", "s", "h", "\n">>
S_Linux == <<"L", "i", "n", "u", "x">>
S_LinuxLine == <<"L", "i", "n", "u", "x", "\n">>
S_release == <<"6", ".", "1", ".", "0">>
S_releaseLine == <<"6", ".", "1", ".", "0", "\n">>
S_5116 == <<"5", ".", "1", ".", "1", "6">>
S_host == <<"h", "o", "s", "t">>
PRETTY_NAME == <<"P", "R", "E", "T", "T", "Y", "_", "N", "A", "M", "E", "=">>
L_Pretty == <<"P", "R", "E", "T", "T", "Y", "_", "N", "A", "M", "E", "=", "\"", "A", "r", "c", "h", " ", "L", "i", "n", "u", "x", "\"", "\n">>
L_PrettyTwo == <<"P", "R", "E", "T", "T", "Y", "_", "N", "A", "M", "E", "=", "\"", "F", "e", "d", "o", "r", "a", " ", "4", "0", "\"", "\n">>
L_PrettyBare == <<"P", "R", "E", "T", "T", "Y", "_", "N", "A", "M", "E", "=", "A", "r", "c", "h", "\n">>
L_Name == <<"N", "A", "M", "E", "=", "\"", "A", "r", "c", "h", "\"", "\n">>
L_Id == <<"I", "D", "=", "a", "r", "c", "h">>
V_bash == <<"b", "a", "s", "h", " ", "5", ".", "1", ".", "1", "6", "(", "1", ")", "-", "r", "e", "l", "e", "a", "s", "e">>
V_nodigits == <<"n", "o", " ", "d", "i", "g", "i", "t", "s", " ", "h", "e", "r", "e">>
V_zsh == <<"z", "s", "h", " ", "5", ".", "9", " ", "(", "x", "8", "6", "_", "6", "4", "-", "p", "c", "-", "l", "i", "n", "u", "x", "-", "g", "n", "u", ")">>
V_bashLine == <<"G", "N", "U", " ", "b", "a", "s", "h", ",", " ", "v", "e", "r", "s", "i", "o", "n", " ", "5", ".", "1", ".", "1", "6", "(", "1", ")", "-", "r", "e", "l", "e", "a", "s", "e", "\n">>
V_dashLine == <<"d", "a", "s", "h", ":", " ", "i", "l", "l", "e", "g", "a", "l", " ", "o", "p", "t", "i", "o", "n", "\n">>

-----------------------------------------------------------------------------
(* libc *)

Min(S) == CHOOSE x \in S : \A y \in S : x <= y

Max(S) == CHOOSE x \in S : \A y \in S : x >= y

RECURSIVE Str(_)
\* The text of a C string, as printf's %s writes it.
Str(s) == IF s = <<>> THEN "" ELSE Head(s) \o Str(Tail(s))

Digits == {"0", "1", "2", "3", "4", "5", "6", "7", "8", "9"}

isdigit(c) == c \in Digits

LowerCase == <<"a", "b", "c", "d", "e", "f", "g", "h", "i", "j", "k", "l", "m",
               "n", "o", "p", "q", "r", "s", "t", "u", "v", "w", "x", "y", "z">>

UpperCase == <<"A", "B", "C", "D", "E", "F", "G", "H", "I", "J", "K", "L", "M",
               "N", "O", "P", "Q", "R", "S", "T", "U", "V", "W", "X", "Y", "Z">>

toupper(c) ==
    IF \E i \in 1..Len(LowerCase) : LowerCase[i] = c
    THEN UpperCase[CHOOSE i \in 1..Len(LowerCase) : LowerCase[i] = c]
    ELSE c

\* Index of the first c in s, 0 when there is none.
strchr(s, c) ==
    LET hits == {i \in 1..Len(s) : s[i] = c}
    IN  IF hits = {} THEN 0 ELSE Min(hits)

\* Index of the last c in s, 0 when there is none.
strrchr(s, c) ==
    LET hits == {i \in 1..Len(s) : s[i] = c}
    IN  IF hits = {} THEN 0 ELSE Max(hits)

\* strstr(hay, needle) != NULL
strstr(hay, needle) ==
    \E i \in 1..(Len(hay) - Len(needle) + 1) :
        SubSeq(hay, i, i + Len(needle) - 1) = needle

\* strncmp(s, prefix, n) == 0, for a prefix of n characters
strncmp0(s, prefix, n) ==
    /\ Len(s) >= n
    /\ SubSeq(s, 1, n) = SubSeq(prefix, 1, n)

\* s[strcspn(s, "\n")] = '\0'
StripNewline(s) ==
    LET nl == strchr(s, "\n")
    IN  IF nl = 0 THEN s ELSE SubSeq(s, 1, nl - 1)

\* Number of characters fgets(buf, size, f) stores when f is at offset pos
\* (1-based) of content: up to size-1, stopping after a newline; 0 at end of file.
fgetsLen(content, pos, size) ==
    LET avail == Len(content) - pos + 1
        lim   == IF avail < size - 1 THEN avail ELSE size - 1
        nls   == {i \in 1..lim : content[pos + i - 1] = "\n"}
    IN  IF lim <= 0 THEN 0
        ELSE IF nls = {} THEN lim ELSE Min(nls)

-----------------------------------------------------------------------------
(* Text extraction *)

extract_quoted_string(line) ==
    LET start == strchr(line, "\"")
        end   == strrchr(line, "\"")
    IN  IF start # 0 /\ end # 0 /\ end > start
        THEN SubSeq(line, start + 1, end - 1)
        ELSE NULL

capitalize_first(str) ==
    IF str = NULL THEN NULL
    ELSE IF str = <<>> THEN <<>>
    ELSE <<toupper(Head(str))>> \o Tail(str)

\* The first while loop: offset (1-based) where the scan stops.
VersionStart(s) ==
    LET ds == {i \in 1..Len(s) : isdigit(s[i])}
    IN  IF ds = {} THEN Len(s) + 1 ELSE Min(ds)

\* The second while loop: number of characters it copies.
VersionRunLen(s, from) ==
    LET stops == {i \in from..Len(s) : ~(isdigit(s[i]) \/ s[i] = ".")}
    IN  IF stops = {} THEN Len(s) - from + 1 ELSE Min(stops) - from

\* The outcomes of extract_version_number(version_output).  version_only is
\* malloc(128); the copy loop is unbounded, so a run of 128 characters or
\* more writes past the allocation: undefined behaviour, here any of the
\* program dying or returning the run from a corrupted heap.
\* nul is the offset (0-based) at which the terminator is written.
extract_version_number(version_output) ==
    LET from == VersionStart(version_output)
        n    == VersionRunLen(version_output, from)
        run  == SubSeq(version_output, from, from + n - 1)
    IN  IF n + 1 <= VERSION_BUF
        THEN {[status |-> "ok", text |-> run, nul |-> n]}
        ELSE {[status |-> "overflow", text |-> run, nul |-> n],
              [status |-> "crash", text |-> NULL, nul |-> n]}

-----------------------------------------------------------------------------
(* OS name: /etc/os-release *)

RECURSIVE OsNameScan(_, _)
\* The while (fgets(line, sizeof(line), file)) loop, file at offset pos.
OsNameScan(content, pos) ==
    LET n    == fgetsLen(content, pos, MAX_LINE_LENGTH)
        line == SubSeq(content, pos, pos + n - 1)
    IN  IF n = 0 THEN NULL
        ELSE IF strncmp0(line, PRETTY_NAME, PREFIX_LEN)
             THEN extract_quoted_string(line)
             ELSE OsNameScan(content, pos + n)

\* file = NULL: fopen fails.
get_os_name(file) ==
    IF file = NULL THEN NULL ELSE OsNameScan(file, 1)

-----------------------------------------------------------------------------
(* Uptime *)

RECURSIVE Itoa(_)
\* printf's %d of a non-negative int.
Itoa(n) ==
    IF n < 10 THEN <<ToString(n)>> ELSE Itoa(n \div 10) \o <<ToString(n % 10)>>

S_days == <<" ", "d", "a", "y", "s", ",", " ">>

S_hours == <<" ", "h", "o", "u", "r", "s", ",", " ">>

S_minutes == <<" ", "m", "i", "n", "u", "t", "e", "s">>

\* get_uptime without the wrap of the hours at 24.
get_uptime_HoursNotWrapped(uptime_seconds) ==
    LET days    == uptime_seconds \div SECS_PER_DAY
        hours   == uptime_seconds \div SECS_PER_HOUR
        minutes == (uptime_seconds \div 60) % 60
    IN  [days |-> days, hours |-> hours, minutes |-> minutes,
         text |-> IF days > 0
                  THEN Itoa(days) \o S_days \o Itoa(hours) \o S_hours
                       \o Itoa(minutes) \o S_minutes
                  ELSE Itoa(hours) \o S_hours \o Itoa(minutes) \o S_minutes]

\* uptime_seconds is a long and days an int: below 2^31 seconds (all that
\* is modelled here) the quotient fits and the conversion changes nothing.
get_uptime(uptime_seconds) ==
    LET days    == uptime_seconds \div SECS_PER_DAY
        hours   == (uptime_seconds \div SECS_PER_HOUR) % 24
        minutes == (uptime_seconds \div 60) % 60
    IN  [days |-> days, hours |-> hours, minutes |-> minutes,
         text |-> IF days > 0
                  THEN Itoa(days) \o S_days \o Itoa(hours) \o S_hours
                       \o Itoa(minutes) \o S_minutes
                  ELSE Itoa(hours) \o S_hours \o Itoa(minutes) \o S_minutes]

-----------------------------------------------------------------------------
(* Resources: handles a probe opens and releases, by kind *)

Res(f, p, x, w) == [file |-> f, pipe |-> p, x11 |-> x, wl |-> w]

NoRes == Res(0, 0, 0, 0)

Kinds == {"file", "pipe", "x11", "wl"}

-----------------------------------------------------------------------------
(* Probes of the display-server variant.  w is the environment of the run. *)

get_kernel_info(sysname, release) == sysname \o <<" ">> \o release

\* get_session_type with the two display fallbacks in the other order.
get_session_type_WaylandFirst(w) ==
    IF w.XDG_SESSION_TYPE # NULL
    THEN [value |-> capitalize_first(w.XDG_SESSION_TYPE), attempts |-> <<>>,
          opened |-> NoRes, closed |-> NoRes]
    ELSE IF w.wl
    THEN [value |-> S_Wayland, attempts |-> <<"wl">>,
          opened |-> Res(0, 0, 0, 1), closed |-> NoRes]
    ELSE IF w.x11
    THEN [value |-> S_X11, attempts |-> <<"wl", "x11">>,
          opened |-> Res(0, 0, 1, 0), closed |-> NoRes]
    ELSE [value |-> S_Unknown, attempts |-> <<"wl", "x11">>,
          opened |-> NoRes, closed |-> NoRes]

get_session_type(w) ==
    IF w.XDG_SESSION_TYPE # NULL
    THEN [value |-> capitalize_first(w.XDG_SESSION_TYPE), attempts |-> <<>>,
          opened |-> NoRes, closed |-> NoRes]
    ELSE IF w.x11
    THEN [value |-> S_X11, attempts |-> <<"x11">>,
          opened |-> Res(0, 0, 1, 0), closed |-> NoRes]
    ELSE IF w.wl
    THEN [value |-> S_Wayland, attempts |-> <<"x11", "wl">>,
          opened |-> Res(0, 0, 0, 1), closed |-> NoRes]
    ELSE [value |-> S_Unknown, attempts |-> <<"x11", "wl">>,
          opened |-> NoRes, closed |-> NoRes]

get_desktop_environment(w) ==
    IF w.XDG_CURRENT_DESKTOP # NULL THEN w.XDG_CURRENT_DESKTOP
    ELSE IF w.DESKTOP_SESSION # NULL THEN w.DESKTOP_SESSION
    ELSE S_Unknown

\* WaylandCompositor without the "kde" session marker.
WaylandCompositor_PlasmaOnly(desktop, session) ==
    IF desktop # NULL /\ strstr(desktop, S_GNOME) THEN S_Mutter
    ELSE IF /\ desktop # NULL /\ strstr(desktop, S_KDE)
            /\ session # NULL
            /\ strstr(session, S_plasma)
    THEN S_KWin
    ELSE S_Compositor

\* The branch taken when XDG_SESSION_TYPE is "wayland".
WaylandCompositor(desktop, session) ==
    IF desktop # NULL /\ strstr(desktop, S_GNOME) THEN S_Mutter
    ELSE IF /\ desktop # NULL /\ strstr(desktop, S_KDE)
            /\ session # NULL
            /\ (strstr(session, S_plasma) \/ strstr(session, S_kde))
    THEN S_KWin
    ELSE S_Compositor

\* netWmName = NULL: an atom is missing, the query fails or prop is NULL.
get_window_manager(w) ==
    IF w.XDG_SESSION_TYPE # NULL /\ w.XDG_SESSION_TYPE = S_wayland
    THEN [value |-> WaylandCompositor(w.XDG_CURRENT_DESKTOP, w.DESKTOP_SESSION),
          opened |-> NoRes, closed |-> NoRes]
    ELSE IF w.XDG_SESSION_TYPE # NULL /\ w.XDG_SESSION_TYPE = S_x11
    THEN IF ~w.x11
         THEN [value |-> S_UnknownWM, opened |-> NoRes, closed |-> NoRes]
         ELSE [value |-> IF w.netWmName # NULL THEN w.netWmName ELSE S_UnknownWM,
               opened |-> Res(0, 0, 1, 0), closed |-> Res(0, 0, 1, 0)]
    ELSE [value |-> S_Unknown, opened |-> NoRes, closed |-> NoRes]

\* get_os_name with the handles it opens and releases.
OsNameProbe(w) ==
    [value  |-> get_os_name(w.osRelease),
     opened |-> IF w.osRelease = NULL THEN NoRes ELSE Res(1, 0, 0, 0),
     closed |-> IF w.osRelease = NULL THEN NoRes ELSE Res(1, 0, 0, 0)]

\* Whether get_os_name reaches extract_quoted_string's malloc.
OsNameAllocates(w) == get_os_name(w.osRelease) # NULL

-----------------------------------------------------------------------------
(* Probes of the basic variant *)

get_desktop(w) == w.XDG_CURRENT_DESKTOP

get_session(w) ==
    IF w.XDG_SESSION_TYPE = NULL THEN NULL
    ELSE IF w.XDG_SESSION_TYPE = <<>> THEN <<>>
    ELSE <<toupper(Head(w.XDG_SESSION_TYPE))>> \o Tail(w.XDG_SESSION_TYPE)

\* A pipe is NULL when popen fails, else what the command writes.
get_kernel(w) ==
    LET nopen == (IF w.popenS # NULL THEN 1 ELSE 0) + (IF w.popenR # NULL THEN 1 ELSE 0)
        os_n  == fgetsLen(w.popenS, 1, MAX_LINE_LENGTH)
        ker_n == fgetsLen(w.popenR, 1, MAX_LINE_LENGTH)
    IN  IF w.popenS = NULL \/ w.popenR = NULL
        THEN [value |-> NULL, opened |-> Res(0, nopen, 0, 0),
              closed |-> Res(0, nopen, 0, 0)]
        ELSE IF os_n = 0 \/ ker_n = 0
        THEN [value |-> NULL, opened |-> Res(0, 2, 0, 0), closed |-> Res(0, 2, 0, 0)]
        ELSE [value  |-> StripNewline(SubSeq(w.popenS, 1, os_n)) \o <<" ">>
                         \o StripNewline(SubSeq(w.popenR, 1, ker_n)),
              opened |-> Res(0, 2, 0, 0), closed |-> Res(0, 2, 0, 0)]

\* The outcomes of get_shell_with_version: one for each outcome of
\* extract_version_number.  comm is the content of /proc/<ppid>/comm (NULL:
\* it cannot be opened); popenVersion maps the command line to what it
\* writes (NULL: popen fails).
get_shell_with_version(w) ==
    LET name_n     == fgetsLen(w.comm, 1, MAX_LINE_LENGTH)
        shell_name == StripNewline(SubSeq(w.comm, 1, name_n))
        out        == w.popenVersion
        line_n     == fgetsLen(out, 1, RESULT_SIZE)
        line       == StripNewline(SubSeq(out, 1, line_n))
    IN  IF w.comm = NULL
        THEN {[status |-> "ok", value |-> NULL, opened |-> NoRes, closed |-> NoRes]}
        ELSE IF name_n = 0
        THEN {[status |-> "ok", value |-> NULL,
               opened |-> Res(1, 0, 0, 0), closed |-> Res(1, 0, 0, 0)]}
        ELSE IF out = NULL
        THEN {[status |-> "ok", value |-> NULL,
               opened |-> Res(1, 0, 0, 0), closed |-> Res(1, 0, 0, 0)]}
        ELSE IF line_n = 0
        THEN {[status |-> "ok", value |-> NULL,
               opened |-> Res(1, 1, 0, 0), closed |-> Res(1, 1, 0, 0)]}
        ELSE {[status |-> v.status,
               value  |-> IF v.status = "crash" THEN NULL
                          ELSE shell_name \o <<" ">> \o v.text,
               opened |-> Res(1, 1, 0, 0),
               closed |-> IF v.status = "crash" THEN Res(1, 0, 0, 0)
                          ELSE Res(1, 1, 0, 0)]
              : v \in extract_version_number(line)}

-----------------------------------------------------------------------------
(* The environments a run can meet *)

SessionValues == {NULL, <<>>, S_wayland, S_x11, S_tty}

DesktopValues == {NULL, <<>>, S_GNOME, S_ubuntuGNOME, S_KDE, S_sway}

DesktopSessionValues == {NULL, S_plasma, S_startkde, S_gnome}

OsReleaseFiles == {NULL, L_Name \o L_Id, L_Name \o L_Pretty \o L_PrettyTwo}

MallocSites == {"extract_quoted_string", "get_kernel_info", "capitalize_first", "get_uptime"}

\* What a spawned command writes: NULL when popen fails, <<>> for no line.
PipeOutputs(line) == {NULL, <<>>, line}

Idle ==
    [variant |-> "none", XDG_SESSION_TYPE |-> NULL, XDG_CURRENT_DESKTOP |-> NULL,
     DESKTOP_SESSION |-> NULL, osRelease |-> NULL, x11 |-> FALSE, wl |-> FALSE,
     netWmName |-> NULL, unameOk |-> TRUE, sysinfoOk |-> TRUE, mallocFail |-> "none",
     uptime |-> 0, popenS |-> NULL, popenR |-> NULL, comm |-> NULL,
     popenVersion |-> NULL]

DisplayWorlds ==
    {[Idle EXCEPT !.variant = "display", !.XDG_SESSION_TYPE = s,
                  !.XDG_CURRENT_DESKTOP = d, !.DESKTOP_SESSION = ds,
                  !.osRelease = f, !.x11 = x, !.wl = wl, !.netWmName = wm,
                  !.unameOk = u, !.sysinfoOk = si, !.mallocFail = m, !.uptime = up] :
        s \in SessionValues, d \in DesktopValues, ds \in DesktopSessionValues,
        f \in OsReleaseFiles, x \in BOOLEAN, wl \in BOOLEAN, wm \in {NULL, S_i3},
        u \in BOOLEAN, si \in BOOLEAN, m \in MallocSites \cup {"none"},
        up \in {3661, 90000}}

BasicWorlds ==
    {[Idle EXCEPT !.variant = "basic", !.XDG_SESSION_TYPE = s,
                  !.XDG_CURRENT_DESKTOP = d, !.DESKTOP_SESSION = ds,
                  !.osRelease = f, !.popenS = ps, !.popenR = pr, !.comm = c,
                  !.popenVersion = pv] :
        s \in SessionValues, d \in DesktopValues, ds \in {NULL, S_plasma},
        f \in OsReleaseFiles, ps \in PipeOutputs(S_LinuxLine),
        pr \in PipeOutputs(S_releaseLine), c \in PipeOutputs(S_bashLine),
        pv \in PipeOutputs(V_bashLine) \cup {V_dashLine}}

-----------------------------------------------------------------------------
(* main *)

UNSET == <<"<unset>">>

FactNames == {"hostname", "os_name", "kernel", "session_type", "desktop",
              "window_manager", "uptime", "shell"}

Probes == {"get_os_name", "get_session_type", "get_window_manager",
           "get_kernel", "get_shell_with_version"}

\* main printing each fact right after its probe.
MainDisplay_PrintAsComputed ==
    <<"get_system_info", "get_system_runtime_info", "strdup_hostname", "printf",
      "get_os_name", "printf", "get_kernel_info", "printf",
      "get_session_type", "printf", "get_desktop_environment", "printf",
      "get_window_manager", "printf", "get_uptime", "printf",
      "return">>

\* The statements of main in the display-server variant, in program order.
MainDisplay ==
    <<"get_system_info", "get_system_runtime_info", "get_os_name",
      "get_kernel_info", "get_session_type", "get_desktop_environment",
      "get_window_manager", "get_uptime", "strdup_hostname",
      "printf", "printf", "printf", "printf", "printf", "printf", "printf",
      "return">>

\* The statements of main in the basic variant, in program order.
MainBasic ==
    <<"get_os_name", "get_desktop", "get_session", "get_kernel",
      "get_shell_with_version",
      "printf", "printf", "printf", "printf", "printf",
      "return">>

Program == IF world.variant = "display" THEN MainDisplay ELSE MainBasic

Running == exitCode = -1

At(stmt) == Running /\ pc \in 1..Len(Program) /\ Program[pc] = stmt

\* The facts of each variant, in the order their lines are printed.
DisplayFacts == <<"hostname", "os_name", "kernel", "session_type", "desktop",
                  "window_manager", "uptime">>

BasicFacts == <<"os_name", "desktop", "session_type", "kernel", "shell">>

FactsOf(variant) == IF variant = "display" THEN DisplayFacts ELSE BasicFacts

DisplayLabel(f) ==
    CASE f = "hostname"       -> "Hostname: "
      [] f = "os_name"        -> "Operating System: "
      [] f = "kernel"         -> "Kernel: "
      [] f = "session_type"   -> "Session Type: "
      [] f = "desktop"        -> "Desktop Environment: "
      [] f = "window_manager" -> "Window Manager/Compositor: "
      [] f = "uptime"         -> "Uptime: "

BasicLabel(f) ==
    CASE f = "os_name"      -> "Operating System: "
      [] f = "desktop"      -> "Desktop Environment / WM: "
      [] f = "session_type" -> "Session Type: "
      [] f = "kernel"       -> "Kernel: "
      [] f = "shell"        -> "Shell: "

BasicPlaceholder(f) ==
    CASE f = "os_name"      -> "Operating System not found."
      [] f = "desktop"      -> "Desktop Environment not recognized."
      [] f = "session_type" -> "Desktop session not recognized."
      [] f = "kernel"       -> "Kernel not recognized."
      [] f = "shell"        -> "Shell not recognized."

\* DisplayLine without the "Unknown" for a NULL os_name.
DisplayLine_NoFallback(f, v) == DisplayLabel(f) \o Str(v)

\* The line main's k-th printf writes, given the value v of its fact.
DisplayLine(f, v) ==
    IF f = "os_name" /\ v = NULL
    THEN DisplayLabel(f) \o "Unknown"
    ELSE DisplayLabel(f) \o Str(v)

BasicLine(f, v) ==
    IF v # NULL THEN BasicLabel(f) \o Str(v) ELSE BasicPlaceholder(f)

\* exit(EXIT_FAILURE) after perror.
handle_error ==
    /\ exitCode' = EXIT_FAILURE
    /\ UNCHANGED <<world, pc, facts, stdout, opened, closed, attempts>>

Returned(probe, r) ==
    /\ opened' = [opened EXCEPT ![probe] = r.opened]
    /\ closed' = [closed EXCEPT ![probe] = r.closed]

GetSystemInfo ==
    /\ At("get_system_info")
    /\ IF ~world.unameOk
       THEN handle_error
       ELSE /\ pc' = pc + 1
            /\ UNCHANGED <<world, facts, stdout, exitCode, opened, closed, attempts>>
    /\ UNCHANGED fnVars

GetSystemRuntimeInfo ==
    /\ At("get_system_runtime_info")
    /\ IF ~world.sysinfoOk
       THEN handle_error
       ELSE /\ pc' = pc + 1
            /\ UNCHANGED <<world, facts, stdout, exitCode, opened, closed, attempts>>
    /\ UNCHANGED fnVars

\* Both variants; only the display-server one exits when malloc fails.
GetOsName ==
    /\ At("get_os_name")
    /\ IF /\ world.variant = "display"
          /\ world.mallocFail = "extract_quoted_string"
          /\ OsNameAllocates(world)
       THEN handle_error
       ELSE LET r == OsNameProbe(world)
            IN  /\ facts' = [facts EXCEPT !["os_name"] = r.value]
                /\ Returned("get_os_name", r)
                /\ pc' = pc + 1
                /\ UNCHANGED <<world, stdout, exitCode, attempts>>
    /\ UNCHANGED fnVars

GetKernelInfo ==
    /\ At("get_kernel_info")
    /\ IF world.mallocFail = "get_kernel_info"
       THEN handle_error
       ELSE /\ facts' = [facts EXCEPT !["kernel"] = get_kernel_info(S_Linux, S_release)]
            /\ pc' = pc + 1
            /\ UNCHANGED <<world, stdout, exitCode, opened, closed, attempts>>
    /\ UNCHANGED fnVars

GetSessionType ==
    /\ At("get_session_type")
    /\ IF world.XDG_SESSION_TYPE # NULL /\ world.mallocFail = "capitalize_first"
       THEN handle_error
       ELSE LET r == get_session_type(world)
            IN  /\ facts' = [facts EXCEPT !["session_type"] = r.value]
                /\ attempts' = r.attempts
                /\ Returned("get_session_type", r)
                /\ pc' = pc + 1
                /\ UNCHANGED <<world, stdout, exitCode>>
    /\ UNCHANGED fnVars

GetDesktopEnvironment ==
    /\ At("get_desktop_environment")
    /\ facts' = [facts EXCEPT !["desktop"] = get_desktop_environment(world)]
    /\ pc' = pc + 1
    /\ UNCHANGED <<world, stdout, exitCode, opened, closed, attempts>>
    /\ UNCHANGED fnVars

GetWindowManager ==
    /\ At("get_window_manager")
    /\ LET r == get_window_manager(world)
       IN  /\ facts' = [facts EXCEPT !["window_manager"] = r.value]
           /\ Returned("get_window_manager", r)
    /\ pc' = pc + 1
    /\ UNCHANGED <<world, stdout, exitCode, attempts>>
    /\ UNCHANGED fnVars

GetUptime ==
    /\ At("get_uptime")
    /\ IF world.mallocFail = "get_uptime"
       THEN handle_error
       ELSE /\ facts' = [facts EXCEPT !["uptime"] = get_uptime(world.uptime).text]
            /\ pc' = pc + 1
            /\ UNCHANGED <<world, stdout, exitCode, opened, closed, attempts>>
    /\ UNCHANGED fnVars

StrdupHostname ==
    /\ At("strdup_hostname")
    /\ facts' = [facts EXCEPT !["hostname"] = S_host]
    /\ pc' = pc + 1
    /\ UNCHANGED <<world, stdout, exitCode, opened, closed, attempts>>
    /\ UNCHANGED fnVars

GetDesktop ==
    /\ At("get_desktop")
    /\ facts' = [facts EXCEPT !["desktop"] = get_desktop(world)]
    /\ pc' = pc + 1
    /\ UNCHANGED <<world, stdout, exitCode, opened, closed, attempts>>
    /\ UNCHANGED fnVars

GetSession ==
    /\ At("get_session")
    /\ facts' = [facts EXCEPT !["session_type"] = get_session(world)]
    /\ pc' = pc + 1
    /\ UNCHANGED <<world, stdout, exitCode, opened, closed, attempts>>
    /\ UNCHANGED fnVars

GetKernel ==
    /\ At("get_kernel")
    /\ LET r == get_kernel(world)
       IN  /\ facts' = [facts EXCEPT !["kernel"] = r.value]
           /\ Returned("get_kernel", r)
    /\ pc' = pc + 1
    /\ UNCHANGED <<world, stdout, exitCode, attempts>>
    /\ UNCHANGED fnVars

\* A crash inside extract_version_number ends the process (SIGSEGV or abort).
GetShellWithVersion ==
    /\ At("get_shell_with_version")
    /\ \E r \in get_shell_with_version(world) :
          /\ Returned("get_shell_with_version", r)
          /\ IF r.status = "crash"
             THEN /\ exitCode' = 139
                  /\ UNCHANGED <<pc, facts>>
             ELSE /\ facts' = [facts EXCEPT !["shell"] = r.value]
                  /\ pc' = pc + 1
                  /\ UNCHANGED exitCode
    /\ UNCHANGED <<world, stdout, attempts>>
    /\ UNCHANGED fnVars

\* The next printf of main: the line of the fact whose turn it is.
Printf ==
    /\ At("printf")
    /\ LET k == Len(stdout) + 1
           f == FactsOf(world.variant)[k]
       IN  stdout' = Append(stdout,
                            IF world.variant = "display"
                            THEN DisplayLine(f, facts[f])
                            ELSE BasicLine(f, facts[f]))
    /\ pc' = pc + 1
    /\ UNCHANGED <<world, facts, exitCode, opened, closed, attempts>>
    /\ UNCHANGED fnVars

Return ==
    /\ At("return")
    /\ exitCode' = 0
    /\ pc' = pc + 1
    /\ UNCHANGED <<world, facts, stdout, opened, closed, attempts>>
    /\ UNCHANGED fnVars

Init ==
    /\ world \in DisplayWorlds \cup BasicWorlds
    /\ pc = 1
    /\ facts = [f \in FactNames |-> UNSET]
    /\ stdout = <<>>
    /\ exitCode = -1
    /\ opened = [p \in Probes |-> NoRes]
    /\ closed = [p \in Probes |-> NoRes]
    /\ attempts = <<>>
    /\ arg = <<>>
    /\ ret = <<>>
    /\ fn = ""

Next ==
    \/ GetSystemInfo
    \/ GetSystemRuntimeInfo
    \/ GetOsName
    \/ GetKernelInfo
    \/ GetSessionType
    \/ GetDesktopEnvironment
    \/ GetWindowManager
    \/ GetUptime
    \/ StrdupHostname
    \/ GetDesktop
    \/ GetSession
    \/ GetKernel
    \/ GetShellWithVersion
    \/ Printf
    \/ Return

Spec == Init /\ [][Next]_vars

-----------------------------------------------------------------------------
(* The text functions on their own: Init draws the argument, the action    *)
(* applies the function.  main does not run in these specifications.       *)

MainIdle ==
    /\ world = Idle
    /\ pc = 0
    /\ facts = [f \in FactNames |-> UNSET]
    /\ stdout = <<>>
    /\ exitCode = -1
    /\ opened = [p \in Probes |-> NoRes]
    /\ closed = [p \in Probes |-> NoRes]
    /\ attempts = <<>>

\* Bounds of the arguments drawn.
MaxDays == 2

MaxShortRun == 3

MaxOverrun == 1

MaxLines == 3

RECURSIVE Concat(_)
Concat(ss) == IF ss = <<>> THEN <<>> ELSE Head(ss) \o Concat(Tail(ss))

Fill(n, c) == [i \in 1..n |-> c]

\* n characters of a version number: 1.1.1...
VersionRun(n) == [i \in 1..n |-> IF i % 2 = 1 THEN "1" ELSE "."]

\* Lines the shell probe can pass: fgets(result, 512) delivers at most 511
\* characters.
VersionInputs ==
    {V_bash, V_nodigits, V_zsh} \cup
    {l \in {pre \o VersionRun(n) \o suf :
                pre \in {<<>>, <<"v">>, S_bash \o <<" ">>},
                n \in (0..MaxShortRun)
                      \cup ((VERSION_BUF - 2)..(VERSION_BUF + MaxOverrun)),
                suf \in {<<>>, <<"(", "1", ")">>, <<"-", "r", "c">>}} :
        Len(l) <= RESULT_SIZE - 1}

InitVersion ==
    /\ MainIdle
    /\ arg \in VersionInputs
    /\ ret = <<>>
    /\ fn = ""

ExtractVersionNumber ==
    /\ fn = ""
    /\ \E r \in extract_version_number(arg) : ret' = r
    /\ fn' = "extract_version_number"
    /\ UNCHANGED <<arg, world, pc, facts, stdout, exitCode, opened, closed, attempts>>

NextVersion == ExtractVersionNumber

SpecVersion == InitVersion /\ [][NextVersion]_vars

\* An over-long line: 255 filler bytes, then PRETTY_NAME="Arch Linux".
L_LongPretty == Fill(MAX_LINE_LENGTH - 1, "x") \o L_Pretty

\* A PRETTY_NAME line whose closing quote lies beyond byte 255.
L_LongQuoted ==
    PRETTY_NAME \o <<"\"">> \o Fill(MAX_LINE_LENGTH, "x") \o <<"\"", "\n">>

LineKinds == {L_Pretty, L_PrettyTwo, L_PrettyBare, L_Name, L_LongPretty, L_LongQuoted}

\* Contents of /etc/os-release; NULL when the file cannot be opened.  The
\* last line may lack its newline.
OsReleaseInputs ==
    {NULL} \cup
    {Concat(ls) \o tail :
        ls \in UNION {[1..n -> LineKinds] : n \in 0..MaxLines},
        tail \in {<<>>, L_Id}}

InitOsName ==
    /\ MainIdle
    /\ arg \in OsReleaseInputs
    /\ ret = <<>>
    /\ fn = ""

CallGetOsName ==
    /\ fn = ""
    /\ ret' = get_os_name(arg)
    /\ fn' = "get_os_name"
    /\ UNCHANGED <<arg, world, pc, facts, stdout, exitCode, opened, closed, attempts>>

NextOsName == CallGetOsName

SpecOsName == InitOsName /\ [][NextOsName]_vars

\* sysinfo's uptime, around the boundaries of minutes, hours and days.
UptimeInputs ==
    {3661, 90000} \cup
    {d * SECS_PER_DAY + h * SECS_PER_HOUR + m * 60 + sec :
        d \in 0..MaxDays, h \in {0, 1, 23}, m \in {0, 1, 59}, sec \in {0, 1, 59}}

InitUptime ==
    /\ MainIdle
    /\ arg \in UptimeInputs
    /\ ret = <<>>
    /\ fn = ""

CallGetUptime ==
    /\ fn = ""
    /\ ret' = get_uptime(arg)
    /\ fn' = "get_uptime"
    /\ UNCHANGED <<arg, world, pc, facts, stdout, exitCode, opened, closed, attempts>>

NextUptime == CallGetUptime

SpecUptime == InitUptime /\ [][NextUptime]_vars

-----------------------------------------------------------------------------
(* Properties *)

Display == world.variant = "display"

Basic == world.variant = "basic"

Has(f) == facts[f] # UNSET

Done == exitCode = 0

\* C1: once get_session_type has returned, its result is XDG_SESSION_TYPE
\* with the first character upper-cased and no display connection attempted
\* when the variable is set; else "X11" after a successful X11 connection;
\* else "Wayland" after a failed X11 and a successful Wayland connection;
\* else "Unknown" after both failed.  Wayland is tried only after X11 failed.
C1_SessionFallbackChain ==
    (Display /\ Has("session_type")) =>
        LET xdg == world.XDG_SESSION_TYPE
            v   == facts["session_type"]
        IN  /\ xdg # NULL =>
                /\ attempts = <<>>
                /\ Len(v) = Len(xdg)
                /\ Len(xdg) > 0 => v[1] = toupper(xdg[1])
                /\ \A i \in 2..Len(xdg) : v[i] = xdg[i]
                /\ xdg = S_wayland => v = S_Wayland
                /\ xdg = S_x11 => v = S_X11
                /\ xdg = S_tty => v = S_Tty
            /\ (xdg = NULL /\ world.x11) =>
                (v = S_X11 /\ attempts = <<"x11">>)
            /\ (xdg = NULL /\ ~world.x11 /\ world.wl) =>
                (v = S_Wayland /\ attempts = <<"x11", "wl">>)
            /\ (xdg = NULL /\ ~world.x11 /\ ~world.wl) =>
                (v = S_Unknown /\ attempts = <<"x11", "wl">>)
            /\ \A i \in 1..Len(attempts) :
                attempts[i] = "wl" => (i = 2 /\ attempts[1] = "x11" /\ ~world.x11)

\* XDG_SESSION_TYPE unset, X11 down, Wayland up: resolved to "Wayland".
C1_WaylandAfterX11Failed ==
    /\ Display
    /\ world.XDG_SESSION_TYPE = NULL
    /\ ~world.x11
    /\ world.wl
    /\ facts["session_type"] = S_Wayland
    /\ attempts = <<"x11", "wl">>

WaylandLabels == {S_Mutter, S_KWin, S_Compositor}

\* C2: once both probes have returned, a session type of "X11" goes with a
\* window manager that is the root window's _NET_WM_NAME or "Unknown WM", a
\* session type of "Wayland" with one of the three Wayland labels, and the
\* window manager is "Unknown" only for a session type that is neither.
C2_WindowManagerFollowsSessionType ==
    (Display /\ Has("session_type") /\ Has("window_manager")) =>
        LET st == facts["session_type"]
            wm == facts["window_manager"]
        IN  /\ st = S_X11 => wm \in {world.netWmName, S_UnknownWM} \ {NULL}
            /\ st = S_Wayland => wm \in WaylandLabels
            /\ wm = S_Unknown => st \notin {S_X11, S_Wayland}

\* C3: every probe that has returned has released every handle and
\* connection it opened, each exactly once.
C3_ProbesReleaseWhatTheyOpen ==
    \A p \in Probes : \A k \in Kinds : opened[p][k] = closed[p][k]

Absent == IF Display THEN S_Unknown ELSE NULL

\* C5: once the desktop probe has returned, its result is
\* XDG_CURRENT_DESKTOP when that is set and non-empty, else DESKTOP_SESSION
\* when that is set, and absent only when neither yields a value.
C5_DesktopPrimaryNonEmptyElseFallback ==
    Has("desktop") =>
        LET d  == world.XDG_CURRENT_DESKTOP
            ds == world.DESKTOP_SESSION
            v  == facts["desktop"]
        IN  IF d # NULL /\ d # <<>> THEN v = d
            ELSE IF ds # NULL THEN v = ds
            ELSE v = Absent

\* C6: get_uptime(s) yields the one (days, hours, minutes) with hours in
\* 0..23, minutes in 0..59 and days*86400 + hours*3600 + minutes*60 <= s <
\* that + 60; the text has the day component exactly when days > 0.
C6_UptimeDecomposition ==
    fn = "get_uptime" =>
        LET d == ret.days
            h == ret.hours
            m == ret.minutes
            floor == d * 86400 + h * 3600 + m * 60
            hm == ToString(h) \o " hours, " \o ToString(m) \o " minutes"
        IN  /\ d >= 0
            /\ h \in 0..23
            /\ m \in 0..59
            /\ floor <= arg
            /\ arg < floor + 60
            /\ d > 0 => Str(ret.text) = ToString(d) \o " days, " \o hm
            /\ d = 0 => Str(ret.text) = hm
            /\ arg = 0 => Str(ret.text) = "0 hours, 0 minutes"
            /\ arg = 3661 => Str(ret.text) = "1 hours, 1 minutes"
            /\ arg = 90000 => Str(ret.text) = "1 days, 1 hours, 0 minutes"

\* get_uptime(90000) has returned "1 days, 1 hours, 0 minutes".
C6_OneDayOneHour ==
    /\ fn = "get_uptime"
    /\ arg = 90000
    /\ ret.days = 1
    /\ Str(ret.text) = "1 days, 1 hours, 0 minutes"

DigitOrDot(c) == isdigit(c) \/ c = "."

\* t is the maximal run of digits and '.' that starts at the first digit of
\* s, or empty when s has no digit.
IsLeadingVersion(s, t) ==
    IF \A i \in 1..Len(s) : ~isdigit(s[i])
    THEN t = <<>>
    ELSE \E p \in 1..Len(s) : \E q \in p..Len(s) :
            /\ isdigit(s[p])
            /\ \A i \in 1..(p - 1) : ~isdigit(s[i])
            /\ \A i \in p..q : DigitOrDot(s[i])
            /\ q = Len(s) \/ ~DigitOrDot(s[q + 1])
            /\ t = SubSeq(s, p, q)

\* C7: for every line of up to 511 characters, extract_version_number
\* returns the maximal run of digits and '.' from the first digit (empty
\* when there is no digit), written with its terminator inside the 128
\* bytes allocated for it.
C7_VersionCompleteInsideBuffer ==
    fn = "extract_version_number" =>
        /\ ret.status = "ok"
        /\ ret.nul < VERSION_BUF
        /\ IsLeadingVersion(arg, ret.text)
        /\ arg = V_bash => ret.text = S_5116
        /\ arg = V_nodigits => ret.text = <<>>

\* The sources of a fact that the claim counts as failed, from the
\* environment alone.
SourceFailed(f) ==
    CASE f = "os_name" ->
            world.osRelease = NULL \/ world.osRelease = L_Name \o L_Id
      [] f = "kernel" ->
            Basic /\ (world.popenS \in {NULL, <<>>} \/ world.popenR \in {NULL, <<>>})
      [] f = "session_type" ->
            /\ world.XDG_SESSION_TYPE = NULL
            /\ Basic \/ (~world.x11 /\ ~world.wl)
      [] f = "desktop" ->
            /\ world.XDG_CURRENT_DESKTOP = NULL
            /\ Basic \/ world.DESKTOP_SESSION = NULL
      [] f = "window_manager" ->
            \/ world.XDG_SESSION_TYPE \notin {S_wayland, S_x11}
            \/ world.XDG_SESSION_TYPE = S_x11 /\ (~world.x11 \/ world.netWmName = NULL)
      [] f = "shell" ->
            world.comm \in {NULL, <<>>} \/ world.popenVersion \in {NULL, <<>>}
      [] OTHER -> FALSE

\* The fixed placeholder lines of a fact.
Placeholders(f) ==
    IF Basic THEN {BasicPlaceholder(f)}
    ELSE CASE f = "os_name"        -> {"Operating System: Unknown"}
           [] f = "session_type"   -> {"Session Type: Unknown"}
           [] f = "desktop"        -> {"Desktop Environment: Unknown"}
           [] f = "window_manager" -> {"Window Manager/Compositor: Unknown",
                                       "Window Manager/Compositor: Unknown WM"}
           [] OTHER                -> {}

\* The line of a fact whose sources are sound, from the environment alone.
SoundLine(f) ==
    CASE f = "hostname" -> "Hostname: host"
      [] f = "os_name" -> "Operating System: Arch Linux"
      [] f = "kernel" -> "Kernel: Linux 6.1.0"
      [] f = "uptime" ->
            IF world.uptime = 3661 THEN "Uptime: 1 hours, 1 minutes"
            ELSE "Uptime: 1 days, 1 hours, 0 minutes"
      [] f = "shell" ->
            IF world.popenVersion = V_bashLine THEN "Shell: bash 5.1.16"
            ELSE "Shell: bash "
      [] f = "session_type" ->
            "Session Type: " \o
            (IF world.XDG_SESSION_TYPE # NULL
             THEN IF world.XDG_SESSION_TYPE = <<>> THEN ""
                  ELSE Str(<<toupper(Head(world.XDG_SESSION_TYPE))>>
                           \o Tail(world.XDG_SESSION_TYPE))
             ELSE IF world.x11 THEN "X11" ELSE "Wayland")
      [] f = "desktop" ->
            (IF Basic THEN "Desktop Environment / WM: " ELSE "Desktop Environment: ")
            \o Str(IF world.XDG_CURRENT_DESKTOP # NULL
                   THEN world.XDG_CURRENT_DESKTOP ELSE world.DESKTOP_SESSION)
      [] f = "window_manager" ->
            "Window Manager/Compositor: " \o
            (IF world.XDG_SESSION_TYPE = S_x11 THEN Str(world.netWmName)
             ELSE IF world.XDG_CURRENT_DESKTOP \in {S_GNOME, S_ubuntuGNOME}
             THEN "Mutter (Wayland)"
             ELSE IF /\ world.XDG_CURRENT_DESKTOP = S_KDE
                     /\ world.DESKTOP_SESSION \in {S_plasma, S_startkde}
             THEN "KWin (Wayland)"
             ELSE "Wayland Compositor")

\* A condition under which the program exits through handle_error.
Fatal == ~world.unameOk \/ ~world.sysinfoOk \/ world.mallocFail # "none"

\* C8: no degradable failure, alone or combined, ends the run: while the
\* process has not exited a statement of main is pending, it exits non-zero
\* only on a fatal condition (uname, sysinfo or malloc failing), and on
\* completion it has exit code 0 and one line per fact, in order, where a
\* fact whose source failed shows its placeholder and every other fact
\* shows its own value.
C8_DegradableFailuresNeverPropagate ==
    /\ Running => pc \in 1..Len(Program)
    /\ pc > Len(Program) => Done
    /\ exitCode \notin {-1, 0} => Fatal
    /\ Done =>
        /\ Len(stdout) = Len(FactsOf(world.variant))
        /\ \A k \in 1..Len(stdout) :
            LET f == FactsOf(world.variant)[k]
            IN  /\ SourceFailed(f) => stdout[k] \in Placeholders(f)
                /\ ~SourceFailed(f) =>
                    (stdout[k] = SoundLine(f) /\ stdout[k] \notin Placeholders(f))

\* The basic variant has completed with every degradable source failed.
C8_EverySourceFailedStillCompletes ==
    /\ Basic
    /\ Done
    /\ \A k \in 1..Len(BasicFacts) : SourceFailed(BasicFacts[k])
    /\ stdout = [k \in 1..Len(BasicFacts) |-> BasicPlaceholder(BasicFacts[k])]

RECURSIVE LinesOf(_)
\* The newline-delimited lines of a file, each with its newline.
LinesOf(content) ==
    IF content = <<>> THEN <<>>
    ELSE LET nl == strchr(content, "\n")
             n  == IF nl = 0 THEN Len(content) ELSE nl
         IN  <<SubSeq(content, 1, n)>> \o LinesOf(SubSeq(content, n + 1, Len(content)))

\* A line cut to at most 255 bytes.
CutLine(line) ==
    SubSeq(line, 1, IF Len(line) < MAX_LINE_LENGTH - 1 THEN Len(line)
                    ELSE MAX_LINE_LENGTH - 1)

\* The quoted string of the first line of the file that starts with
\* PRETTY_NAME=, NULL when there is no such line.
FirstPrettyLine(content) ==
    LET ls   == LinesOf(content)
        hits == {i \in 1..Len(ls) : strncmp0(CutLine(ls[i]), PRETTY_NAME, PREFIX_LEN)}
    IN  IF hits = {} THEN NULL
        ELSE extract_quoted_string(CutLine(ls[Min(hits)]))

\* C9: get_os_name returns the quoted string of the first newline-delimited
\* line (cut to 255 bytes) that starts with PRETTY_NAME=, and NULL when the
\* file cannot be opened or has no such line; the middle of an over-long
\* line is never taken as the start of a line.
C9_OsNameFromFirstMatchingLine ==
    fn = "get_os_name" =>
        ret = (IF arg = NULL THEN NULL ELSE FirstPrettyLine(arg))

Computed == {f \in FactNames : Has(f)}

====
